---- MODULE Spec2Model ----
(***************************************************************************)
(* Model of src/app.py: parse_channel_transcript (the utterance segmenter  *)
(* and the conversation assembler) and the batch transcribe handler that   *)
(* calls it once per WAV file.                                             *)
(*                                                                         *)
(* Times.  The engine gives start_time / end_time as decimal strings and   *)
(* the code parses them with float().  The model counts time in ticks of   *)
(* half a second: a tick count n stands for the string of n/2, which       *)
(* float() represents exactly, so that the subtraction of line 50 is exact *)
(* and  (start - last_end) > 1.5  is  start - last_end > 3  in ticks.      *)
(*                                                                         *)
(* Strings are TLA+ strings; \o is Python's + on str.                      *)
(***************************************************************************)
EXTENDS Integers, Sequences, FiniteSets, TLC

VARIABLES
    \* ---- parse_channel_transcript (one call)
    transcript_data,   \* the argument
    pc,                \* position in the function
    ci,                \* index of the channel of `for channel in items`
    ii,                \* index of the item of the second `for item in channel['items']`
    segments,
    label,
    current_words,
    utterances,
    buf,
    last_end,
    result,            \* the returned pair, <<>> before the return
    \* ---- the transcribe_clicked handler (one script run)
    hpc,               \* position in the handler
    bucket_name,       \* BUCKET_NAME
    language,
    translate_lang,
    wav_files,
    fi,                \* index of the file of `for s3_key in wav_files`
    job_name,
    status,            \* TranscriptionJobStatus of the last get_transcription_job
    results,           \* st.session_state.results
    show_results,      \* st.session_state.show_results
    engine,            \* the transcription service: job name -> its job
    started            \* number of start_transcription_job calls so far

parse_vars == <<transcript_data, pc, ci, ii, segments, label, current_words,
                utterances, buf, last_end, result>>
handler_vars == <<hpc, bucket_name, language, translate_lang, wav_files, fi,
                  job_name, status, results, show_results, engine, started>>
vars == <<parse_vars, handler_vars>>

-----------------------------------------------------------------------------
(* Bounds of the model. *)

MaxItems == 3        \* items of the channel of a one-channel input
MaxTime == 4         \* latest start_time, in ticks
MaxChannels == 2     \* channels of a many-channel input
MaxTotalItems == 3   \* items of a many-channel input, over all its channels
MaxObjects == 2      \* objects list_objects_v2 returns

-----------------------------------------------------------------------------
(* Strings. *)

Digits == <<"0", "1", "2", "3", "4", "5", "6", "7", "8", "9">>

RECURSIVE IntToStr(_)
\* str(n) of a non-negative int, as the f-strings of lines 33 and 134 format it.
IntToStr(n) ==
    IF n < 10 THEN Digits[n + 1]
    ELSE IntToStr(n \div 10) \o Digits[(n % 10) + 1]

RECURSIVE Join(_, _)
\* sep.join(strs)
Join(sep, strs) ==
    IF strs = <<>> THEN ""
    ELSE IF Len(strs) = 1 THEN strs[1]
    ELSE strs[1] \o sep \o Join(sep, Tail(strs))

-----------------------------------------------------------------------------
(* The engine's result object. *)

\* An item of type pronunciation; content is item['alternatives'][0]['content'].
WordItem(c, s, e) ==
    [type |-> "pronunciation", content |-> c, start_time |-> s, end_time |-> e]

\* An item of type punctuation: it carries no times.
PunctItem(c) == [type |-> "punctuation", content |-> c]

\* The strings 'ch_0', 'ch_1', ... of channel['channel_label'].
ChannelLabelString(k) == "ch_" \o IntToStr(k)

\* The channel indices the inputs use: the two of CHANNEL_LABELS and one more.
ChannelIndices == {0, 1, 2}
ChannelLabelStrings == {ChannelLabelString(k) : k \in ChannelIndices}

SeqsUpTo(S, n) == UNION {[1..k -> S] : k \in 0..n}

\* The words of the inputs, each with the ticks it lasts.
WordTicks == [hi |-> 1, yo |-> 0]
Words == DOMAIN WordTicks
Puncts == {"."}

\* The items of the one-channel inputs: every word at every start, and the
\* punctuation.  Starts are not ordered: the code does not check that they are.
RichItems ==
    {WordItem(c, s, s + WordTicks[c]) : c \in Words, s \in 0..MaxTime}
    \cup {PunctItem(c) : c \in Puncts}

\* The items of the many-channel inputs: one word, on the whole seconds.
SimpleItems == {WordItem("hi", s, s) : s \in {t \in 0..MaxTime : t % 2 = 0}}

Channel(l, its) == [channel_label |-> l, items |-> its]

\* transcript is results.transcripts[0].transcript; channels is
\* results.channel_labels.channels, a field the engine may leave out.
WithChannels(chs) == [transcript |-> "hola", channels |-> chs]
WithoutChannels(t) == [transcript |-> t]

PlainTranscripts == {"", " ", "hola", "hola que tal"}

OneChannelInputs ==
    {WithChannels(<<Channel("ch_0", its)>>) : its \in SeqsUpTo(RichItems, MaxItems)}

RECURSIVE TotalItems(_)
TotalItems(chs) ==
    IF chs = <<>> THEN 0 ELSE Len(chs[1].items) + TotalItems(Tail(chs))

RECURSIVE ChannelSeqs(_, _)
\* The lists of k channels holding at most n items in all.  The engine labels
\* the channels of one result differently.
ChannelSeqs(k, n) ==
    IF k = 0 THEN {<<>>}
    ELSE UNION {
        {Append(chs, Channel(l, its)) :
            l \in ChannelLabelStrings \ {chs[i].channel_label : i \in 1..Len(chs)},
            its \in SeqsUpTo(SimpleItems, n - TotalItems(chs))}
        : chs \in ChannelSeqs(k - 1, n)}

ManyChannelInputs ==
    {WithChannels(chs) :
        chs \in UNION {ChannelSeqs(k, MaxTotalItems) : k \in 1..MaxChannels}}

NoChannelInputs ==
    {WithoutChannels(t) : t \in PlainTranscripts}
    \cup {[transcript |-> t, channels |-> <<>>] : t \in PlainTranscripts}

Inputs == OneChannelInputs \cup ManyChannelInputs \cup NoChannelInputs

-----------------------------------------------------------------------------
(* parse_channel_transcript: its expressions. *)

\* line 24: transcript_data.get('results', {}).get('channel_labels', {}).get('channels', [])
Items(td) == IF "channels" \in DOMAIN td THEN td.channels ELSE <<>>

\* line 32: int(channel['channel_label'].replace('ch_', ''))
ChLabel(channel_label) ==
    CHOOSE k \in 0..(Len(Digits) - 1) : "ch_" \o IntToStr(k) = channel_label

\* line 19
CHANNEL_LABELS == [k \in {0, 1} |-> IF k = 0 THEN "AI Agent" ELSE "Customer"]

\* Mutant of Label: an index the table lacks gets the second role.
LabelDefaultsToCustomer(ch_label) ==
    IF ch_label \in DOMAIN CHANNEL_LABELS THEN CHANNEL_LABELS[ch_label]
    ELSE CHANNEL_LABELS[1]

\* line 33: CHANNEL_LABELS.get(ch_label, f"Ch{ch_label}")
Label(ch_label) ==
    IF ch_label \in DOMAIN CHANNEL_LABELS THEN CHANNEL_LABELS[ch_label]
    ELSE "Ch" \o IntToStr(ch_label)

\* lines 37-40: one pass of the first loop over an item.
CurrentWordsStep(cw, item) ==
    IF item.type = "pronunciation" THEN Append(cw, item.content)
    ELSE IF item.type = "punctuation" /\ cw # <<>>
         THEN [cw EXCEPT ![Len(cw)] = @ \o item.content]
    ELSE cw

RECURSIVE CurrentWords(_)
\* lines 35-40: the first loop over channel['items'].
CurrentWords(its) ==
    IF its = <<>> THEN <<>>
    ELSE CurrentWordsStep(CurrentWords(SubSeq(its, 1, Len(its) - 1)), its[Len(its)])

\* lines 51 and 60: (buf[0]['start'], ' '.join(b['word'] for b in buf), label)
Utterance(b, lab) ==
    [start |-> b[1].start,
     text |-> Join(" ", [k \in 1..Len(b) |-> b[k].word]),
     label |-> lab]

\* line 50: the 1.5 s of the comparison, in ticks of half a second
GapThresholdTicks == 3

\* Mutant of SplitHere: >= for >.
SplitHereAtThreshold(b, start, lastEnd) ==
    b # <<>> /\ (start - lastEnd) >= GapThresholdTicks

\* line 50: buf and (start - last_end) > 1.5
SplitHere(b, start, lastEnd) == b # <<>> /\ (start - lastEnd) > GapThresholdTicks

\* line 55: item['type'] == 'punctuation' and buf
FuseHere(item, b) == item.type = "punctuation" /\ b # <<>>

\* line 53: the pair appended to buf
BufEntry(item) == [start |-> item.start_time, word |-> item.content]

\* Mutant of Fuse: the punctuation is set off by a space.
FuseWithSpace(b, item) == [b EXCEPT ![Len(b)].word = @ \o " " \o item.content]

\* line 56: buf[-1]['word'] += item['alternatives'][0]['content']
Fuse(b, item) == [b EXCEPT ![Len(b)].word = @ \o item.content]

\* Mutant of SegmentStep: punctuation that finds buf empty starts a word.
SegmentStepPunctuationStartsWord(s, lab, item) ==
    IF item.type = "pronunciation" THEN
        LET start == item.start_time
            split == SplitHere(s.buf, start, s.last_end)
        IN [utterances |-> IF split THEN Append(s.utterances, Utterance(s.buf, lab))
                           ELSE s.utterances,
            buf |-> Append(IF split THEN <<>> ELSE s.buf, BufEntry(item)),
            last_end |-> item.end_time]
    ELSE IF s.buf # <<>> THEN [s EXCEPT !.buf = Fuse(s.buf, item)]
    ELSE [s EXCEPT !.buf = <<[start |-> s.last_end, word |-> item.content]>>]

\* lines 48-56: one pass of the second loop, on the loop's three locals.
SegmentStep(s, lab, item) ==
    IF item.type = "pronunciation" THEN
        LET start == item.start_time
            split == SplitHere(s.buf, start, s.last_end)
        IN [utterances |-> IF split THEN Append(s.utterances, Utterance(s.buf, lab))
                           ELSE s.utterances,
            buf |-> Append(IF split THEN <<>> ELSE s.buf, BufEntry(item)),
            last_end |-> item.end_time]
    ELSE IF FuseHere(item, s.buf) THEN [s EXCEPT !.buf = Fuse(s.buf, item)]
    ELSE s

\* Mutant of FlushRemaining: the flush after the loop is left out.
FlushRemainingForgotten(u, b, lab) == u

\* lines 59-60: the flush of what is left in buf
FlushRemaining(u, b, lab) == IF b # <<>> THEN Append(u, Utterance(b, lab)) ELSE u

\* Mutant of InsertByStart: x goes before the elements of its own key.
InsertByStartBeforeEqual(sorted, x) ==
    LET k == Cardinality({i \in 1..Len(sorted) : sorted[i].start < x.start})
    IN SubSeq(sorted, 1, k) \o <<x>> \o SubSeq(sorted, k + 1, Len(sorted))

\* list.sort inserts stably: x goes behind every element whose key is <= its own.
InsertByStart(sorted, x) ==
    LET k == Cardinality({i \in 1..Len(sorted) : sorted[i].start <= x.start})
    IN SubSeq(sorted, 1, k) \o <<x>> \o SubSeq(sorted, k + 1, Len(sorted))

RECURSIVE SortByStart(_)
\* line 65: segments.sort(key=lambda x: x[0])
SortByStart(segs) ==
    IF segs = <<>> THEN <<>>
    ELSE InsertByStart(SortByStart(SubSeq(segs, 1, Len(segs) - 1)), segs[Len(segs)])

\* line 68: f"{seg[2]}: {seg[1]}"
Line(seg) == seg.label \o ": " \o seg.text

\* lines 68-69: '\n'.join(lines)
Render(segs) == Join("\n", [k \in 1..Len(segs) |-> Line(segs[k])])

NoResult == <<>>

-----------------------------------------------------------------------------
(* parse_channel_transcript, step by step. *)

channel == Items(transcript_data)[ci]
item == channel.items[ii]
locals == [utterances |-> utterances, buf |-> buf, last_end |-> last_end]

ParseInit ==
    /\ transcript_data \in Inputs
    /\ pc = "call"
    /\ ci = 0
    /\ ii = 0
    /\ segments = <<>>
    /\ label = ""
    /\ current_words = <<>>
    /\ utterances = <<>>
    /\ buf = <<>>
    /\ last_end = 0
    /\ result = NoResult

\* Mutant of Fallback: the flag is returned true.
FallbackFlagged ==
    /\ pc = "call"
    /\ Items(transcript_data) = <<>>
    /\ result' = <<transcript_data.transcript, TRUE>>
    /\ pc' = "done"
    /\ UNCHANGED <<transcript_data, ci, ii, segments, label, current_words,
                   utterances, buf, last_end, handler_vars>>

\* lines 25-28: no channel data, the plain transcript is returned
Fallback ==
    /\ pc = "call"
    /\ Items(transcript_data) = <<>>
    /\ result' = <<transcript_data.transcript, FALSE>>
    /\ pc' = "done"
    /\ UNCHANGED <<transcript_data, ci, ii, segments, label, current_words,
                   utterances, buf, last_end, handler_vars>>

\* lines 25, 30-31: there are channels; the loop over them starts
EnterChannels ==
    /\ pc = "call"
    /\ Items(transcript_data) # <<>>
    /\ segments' = <<>>
    /\ ci' = 1
    /\ pc' = "channel"
    /\ UNCHANGED <<transcript_data, ii, label, current_words, utterances, buf,
                   last_end, result, handler_vars>>

\* lines 31-46: the channel's label, the first loop, the second loop's locals
BeginChannel ==
    /\ pc = "channel"
    /\ ci <= Len(Items(transcript_data))
    /\ label' = Label(ChLabel(channel.channel_label))
    /\ current_words' = CurrentWords(channel.items)
    /\ utterances' = <<>>
    /\ buf' = <<>>
    /\ last_end' = 0
    /\ ii' = 1
    /\ pc' = "items"
    /\ UNCHANGED <<transcript_data, ci, segments, result, handler_vars>>

\* The second loop takes one item.
TakeItem ==
    LET s == SegmentStep(locals, label, item)
    IN /\ utterances' = s.utterances
       /\ buf' = s.buf
       /\ last_end' = s.last_end
       /\ ii' = ii + 1
       /\ UNCHANGED <<transcript_data, pc, ci, segments, label, current_words,
                      result, handler_vars>>

InLoop == pc = "items" /\ ii <= Len(channel.items)

\* lines 48-54, the pause is over the threshold: buf is flushed first
WordSplits ==
    /\ InLoop
    /\ item.type = "pronunciation"
    /\ SplitHere(buf, item.start_time, last_end)
    /\ TakeItem

\* lines 48-54 otherwise: the word joins buf
WordJoins ==
    /\ InLoop
    /\ item.type = "pronunciation"
    /\ ~SplitHere(buf, item.start_time, last_end)
    /\ TakeItem

\* lines 55-56: punctuation goes onto the last word of buf
PunctuationFuses ==
    /\ InLoop
    /\ FuseHere(item, buf)
    /\ TakeItem

\* line 55 false: punctuation with buf empty matches no branch
PunctuationDropped ==
    /\ InLoop
    /\ item.type = "punctuation"
    /\ ~FuseHere(item, buf)
    /\ TakeItem

\* lines 58-62: after the loop, flush buf and extend segments
EndChannel ==
    /\ pc = "items"
    /\ ii > Len(channel.items)
    /\ utterances' = FlushRemaining(utterances, buf, label)
    /\ segments' = segments \o utterances'
    /\ ci' = ci + 1
    /\ pc' = "channel"
    /\ UNCHANGED <<transcript_data, ii, label, current_words, buf, last_end,
                   result, handler_vars>>

\* Mutant of SortAndRender: with no utterance at all the plain transcript is
\* returned, as when there is no channel.
SortAndRenderFallsBack ==
    /\ pc = "channel"
    /\ ci > Len(Items(transcript_data))
    /\ segments' = SortByStart(segments)
    /\ result' = IF segments = <<>> THEN <<transcript_data.transcript, FALSE>>
                 ELSE <<Render(segments'), TRUE>>
    /\ pc' = "done"
    /\ UNCHANGED <<transcript_data, ci, ii, label, current_words, utterances,
                   buf, last_end, handler_vars>>

\* lines 64-69: sort, render, return
SortAndRender ==
    /\ pc = "channel"
    /\ ci > Len(Items(transcript_data))
    /\ segments' = SortByStart(segments)
    /\ result' = <<Render(segments'), TRUE>>
    /\ pc' = "done"
    /\ UNCHANGED <<transcript_data, ci, ii, label, current_words, utterances,
                   buf, last_end, handler_vars>>

ParseNext ==
    \/ Fallback
    \/ EnterChannels
    \/ BeginChannel
    \/ WordSplits
    \/ WordJoins
    \/ PunctuationFuses
    \/ PunctuationDropped
    \/ EndChannel
    \/ SortAndRender

-----------------------------------------------------------------------------
(* parse_channel_transcript as one call, for its caller. *)

RECURSIVE SegmentLoop(_, _)
\* lines 44-56: the second loop over channel['items']
SegmentLoop(its, lab) ==
    IF its = <<>> THEN [utterances |-> <<>>, buf |-> <<>>, last_end |-> 0]
    ELSE SegmentStep(SegmentLoop(SubSeq(its, 1, Len(its) - 1), lab), lab, its[Len(its)])

\* lines 32-60: the utterances of one channel
ChannelUtterances(ch) ==
    LET lab == Label(ChLabel(ch.channel_label))
        s == SegmentLoop(ch.items, lab)
    IN FlushRemaining(s.utterances, s.buf, lab)

RECURSIVE CollectSegments(_)
\* lines 30-62: segments after the loop over the channels
CollectSegments(chs) ==
    IF chs = <<>> THEN <<>>
    ELSE CollectSegments(SubSeq(chs, 1, Len(chs) - 1)) \o ChannelUtterances(chs[Len(chs)])

\* lines 22-69
parse_channel_transcript(td) ==
    IF Items(td) = <<>> THEN <<td.transcript, FALSE>>
    ELSE <<Render(SortByStart(CollectSegments(Items(td)))), TRUE>>

-----------------------------------------------------------------------------
(* The transcribe_clicked handler, lines 113-188, and the transcription    *)
(* service it polls.                                                       *)

\* An object key is the list of its pieces, the last one its extension:
\* <<"a", ".wav">> is 'a.wav'.
ObjectKeys == {<<"a", ".wav">>, <<"b", ".wav">>, <<"c", ".wav">>, <<"notes", ".txt">>}
KeyString(key) == Join("", key)

\* line 121: obj['Key'].endswith('.wav')
EndsWithWav(key) == key[Len(key)] = ".wav"

\* What list_objects_v2 may return: at most MaxObjects different keys.
Listings ==
    {l \in SeqsUpTo(ObjectKeys, MaxObjects) :
        \A i, j \in 1..Len(l) : l[i] = l[j] => i = j}

\* line 121: the keys of the listing that end in .wav, in its order
WavFiles(listing) == SelectSeq(listing, EndsWithWav)

\* A language code is the list language.split('-') gives: <<"es", "US">> is 'es-US'.
Languages == {<<"es", "US">>, <<"en", "US">>}
TranslateLangs == {"None", "en", "es"}

\* line 163: language.split('-')[0]
SourceLang(lang) == lang[1]

\* str.strip() on the texts of this model: only the blank ones change.
Strip(text) == IF text \in {"", " "} THEN "" ELSE text

\* lines 166-171: what the translation service answers
TranslatedText(text, target) == "[" \o target \o "] " \o text

\* lines 161-172
TranslationText(text, lang, target) ==
    IF target # "None" /\ Strip(text) # "" /\ SourceLang(lang) # target
    THEN TranslatedText(text, target)
    ELSE ""

\* The transcripts the service may produce for a recording.
JobTranscripts ==
    { WithoutChannels("hola"),
      WithoutChannels(" "),
      WithChannels(<<Channel("ch_0", <<WordItem("hi", 0, 1), PunctItem(".")>>),
                     Channel("ch_1", <<WordItem("yo", 2, 2)>>)>>),
      WithChannels(<<Channel("ch_0", <<>>)>>) }

\* line 157: parse_channel_transcript(transcript_data), on each of them
ParsedTranscript == [td \in JobTranscripts |-> parse_channel_transcript(td)]

\* line 134: f"transcribe-{uuid.uuid4()}"; the n-th uuid drawn is a new one
JobName(n) == "transcribe-" \o IntToStr(n)

Terminal == {"COMPLETED", "FAILED"}

\* lines 174-179
ResultEntry(key, parsed, translation) ==
    [File |-> KeyString(key), Transcript |-> parsed[1],
     Translation |-> translation, IsChannel |-> parsed[2]]

\* The session a script run may start in: nothing yet, or an earlier batch's results.
EarlierResults ==
    {<<>>, <<ResultEntry(<<"old", ".wav">>, <<"hola", FALSE>>, "")>>}

ParseIdle ==
    /\ transcript_data = WithoutChannels("")
    /\ pc = "idle"
    /\ ci = 0
    /\ ii = 0
    /\ segments = <<>>
    /\ label = ""
    /\ current_words = <<>>
    /\ utterances = <<>>
    /\ buf = <<>>
    /\ last_end = 0
    /\ result = NoResult

HandlerInit ==
    /\ hpc = "clicked"
    /\ bucket_name \in {"", "amdtest0930"}
    /\ language \in Languages
    /\ translate_lang \in TranslateLangs
    /\ wav_files = <<>>
    /\ fi = 0
    /\ job_name = ""
    /\ status = ""
    /\ results \in EarlierResults
    /\ show_results = (results # <<>>)
    /\ engine = <<>>
    /\ started = 0

\* lines 114-116: no bucket name, st.stop()
NoBucket ==
    /\ hpc = "clicked"
    /\ bucket_name = ""
    /\ hpc' = "stopped"
    /\ UNCHANGED <<bucket_name, language, translate_lang, wav_files, fi, job_name,
                   status, results, show_results, engine, started, parse_vars>>

\* lines 117-121: the bucket is listed and the .wav keys kept
ListObjects ==
    /\ hpc = "clicked"
    /\ bucket_name # ""
    /\ \E listing \in Listings : wav_files' = WavFiles(listing)
    /\ hpc' = "listed"
    /\ UNCHANGED <<bucket_name, language, translate_lang, fi, job_name,
                   status, results, show_results, engine, started, parse_vars>>

\* lines 123-124: nothing to transcribe
NoWavFiles ==
    /\ hpc = "listed"
    /\ wav_files = <<>>
    /\ hpc' = "nothing"
    /\ UNCHANGED <<bucket_name, language, translate_lang, wav_files, fi, job_name,
                   status, results, show_results, engine, started, parse_vars>>

\* lines 125-128: the session's results are reset and the loop over the files starts
BeginBatch ==
    /\ hpc = "listed"
    /\ wav_files # <<>>
    /\ results' = <<>>
    /\ show_results' = FALSE
    /\ fi' = 1
    /\ hpc' = "file"
    /\ UNCHANGED <<bucket_name, language, translate_lang, wav_files, job_name,
                   status, engine, started, parse_vars>>

\* lines 128-145: the next file's job is started
StartJob ==
    /\ hpc = "file"
    /\ fi <= Len(wav_files)
    /\ started' = started + 1
    /\ job_name' = JobName(started')
    /\ engine' = (job_name' :> [status |-> "IN_PROGRESS", media |-> wav_files[fi]])
                    @@ engine
    /\ hpc' = "poll"
    /\ UNCHANGED <<bucket_name, language, translate_lang, wav_files, fi,
                   status, results, show_results, parse_vars>>

\* Mutant of PollWaits: the loop gives up on a status that is not final.
PollWaitsGivesUp ==
    /\ hpc = "poll"
    /\ status' = engine[job_name].status
    /\ status' \notin Terminal
    /\ hpc' = "polled"
    /\ UNCHANGED <<bucket_name, language, translate_lang, wav_files, fi, job_name,
                   results, show_results, engine, started, parse_vars>>

\* lines 148-151: the status is not final: sleep, then poll again
PollWaits ==
    /\ hpc = "poll"
    /\ status' = engine[job_name].status
    /\ status' \notin Terminal
    /\ hpc' = "poll"
    /\ UNCHANGED <<bucket_name, language, translate_lang, wav_files, fi, job_name,
                   results, show_results, engine, started, parse_vars>>

\* lines 148-150: the status is COMPLETED or FAILED: break
PollBreaks ==
    /\ hpc = "poll"
    /\ status' = engine[job_name].status
    /\ status' \in Terminal
    /\ hpc' = "polled"
    /\ UNCHANGED <<bucket_name, language, translate_lang, wav_files, fi, job_name,
                   results, show_results, engine, started, parse_vars>>

\* lines 154-179: the entry made of the job's transcript
CompletedEntry ==
    LET parsed == ParsedTranscript[engine[job_name].transcript]
        translation == TranslationText(parsed[1], language, translate_lang)
    IN ResultEntry(wav_files[fi], parsed, translation)

\* lines 153-179: the transcript is fetched, parsed, translated and recorded
JobCompleted ==
    /\ hpc = "polled"
    /\ status = "COMPLETED"
    /\ results' = Append(results, CompletedEntry)
    /\ hpc' = "delete"
    /\ UNCHANGED <<bucket_name, language, translate_lang, wav_files, fi, job_name,
                   status, show_results, engine, started, parse_vars>>

\* Mutant of JobFailed: a failed job is not deleted.
JobFailedSkipsDelete ==
    /\ hpc = "polled"
    /\ status # "COMPLETED"
    /\ fi' = fi + 1
    /\ hpc' = "file"
    /\ UNCHANGED <<bucket_name, language, translate_lang, wav_files, job_name,
                   status, results, show_results, engine, started, parse_vars>>

\* lines 180-181: st.error
JobFailed ==
    /\ hpc = "polled"
    /\ status # "COMPLETED"
    /\ hpc' = "delete"
    /\ UNCHANGED <<bucket_name, language, translate_lang, wav_files, fi, job_name,
                   status, results, show_results, engine, started, parse_vars>>

\* lines 183-185: the job is deleted and the loop goes to the next file
DeleteJob ==
    /\ hpc = "delete"
    /\ engine' = [j \in DOMAIN engine \ {job_name} |-> engine[j]]
    /\ fi' = fi + 1
    /\ hpc' = "file"
    /\ UNCHANGED <<bucket_name, language, translate_lang, wav_files, job_name,
                   status, results, show_results, started, parse_vars>>

\* lines 187-188: after the last file
EndBatch ==
    /\ hpc = "file"
    /\ fi > Len(wav_files)
    /\ show_results' = TRUE
    /\ hpc' = "rerun"
    /\ UNCHANGED <<bucket_name, language, translate_lang, wav_files, fi, job_name,
                   status, results, engine, started, parse_vars>>

\* The service finishes a job it is working on, with some transcript.
EngineCompletes ==
    \E j \in DOMAIN engine, td \in JobTranscripts :
        /\ engine[j].status = "IN_PROGRESS"
        /\ engine' = [engine EXCEPT ![j] =
                        [status |-> "COMPLETED", media |-> @.media, transcript |-> td]]
        /\ UNCHANGED <<hpc, bucket_name, language, translate_lang, wav_files, fi,
                       job_name, status, results, show_results, started, parse_vars>>

\* The service gives a job up.
EngineFails ==
    \E j \in DOMAIN engine :
        /\ engine[j].status = "IN_PROGRESS"
        /\ engine' = [engine EXCEPT ![j] = [status |-> "FAILED", media |-> @.media]]
        /\ UNCHANGED <<hpc, bucket_name, language, translate_lang, wav_files, fi,
                       job_name, status, results, show_results, started, parse_vars>>

HandlerStep ==
    \/ NoBucket
    \/ ListObjects
    \/ NoWavFiles
    \/ BeginBatch
    \/ StartJob
    \/ PollWaits
    \/ PollBreaks
    \/ JobCompleted
    \/ JobFailed
    \/ DeleteJob
    \/ EndBatch

EngineStep == EngineCompletes \/ EngineFails

HandlerNext == HandlerStep \/ EngineStep

-----------------------------------------------------------------------------
(* Specifications. *)

HandlerIdle ==
    /\ hpc = "idle"
    /\ bucket_name = ""
    /\ language = <<>>
    /\ translate_lang = ""
    /\ wav_files = <<>>
    /\ fi = 0
    /\ job_name = ""
    /\ status = ""
    /\ results = <<>>
    /\ show_results = FALSE
    /\ engine = <<>>
    /\ started = 0

\* One call of parse_channel_transcript on any input.
Init == ParseInit /\ HandlerIdle
Next == ParseNext
Spec == Init /\ [][Next]_vars

\* One run of the handler, with the service beside it.
BatchInit == ParseIdle /\ HandlerInit
BatchSpec == BatchInit /\ [][HandlerNext]_vars

\* The script runs on: a handler step that can be taken is taken.  The service
\* ends every job it has (the premise of the termination claim).
FairBatchSpec ==
    /\ BatchSpec
    /\ WF_vars(HandlerStep)
    /\ WF_vars(EngineStep)

-----------------------------------------------------------------------------
(* What the claims speak of, read off the input alone. *)

IsWord(x) == x.type = "pronunciation"

\* The numbers of a finite set of numbers, ascending.
Ascending(S) ==
    [i \in 1..Cardinality(S) |-> CHOOSE x \in S : Cardinality({y \in S : y <= x}) = i]

\* The word tokens of an item list, in order.
RefWords(its) == SelectSeq(its, IsWord)

\* The positions of the word tokens in the item list.
RefWordPos(its) == Ascending({p \in 1..Len(its) : IsWord(its[p])})

\* k is a boundary when word k+1 starts more than 1.5 s (3 ticks) after word k ends.
RefBoundaries(its) ==
    LET W == RefWords(its)
    IN {k \in 1..(Len(W) - 1) : W[k + 1].start_time - W[k].end_time > 3}

RefNumGroups(its) ==
    IF RefWords(its) = <<>> THEN 0 ELSE 1 + Cardinality(RefBoundaries(its))

\* The words of the g-th run between boundaries, by their number among the words.
RefGroup(its, g) ==
    Ascending({k \in 1..Len(RefWords(its)) :
                 1 + Cardinality({b \in RefBoundaries(its) : b < k}) = g})

\* Word k with the punctuation that follows it up to the next word.
RefFused(its, k) ==
    LET pos == RefWordPos(its)
        p == pos[k]
        q == IF k < Len(pos) THEN pos[k + 1] ELSE Len(its) + 1
    IN its[p].content \o Join("", [j \in 1..(q - p - 1) |-> its[p + j].content])

RefGroupText(its, g) ==
    LET m == RefGroup(its, g)
    IN Join(" ", [i \in 1..Len(m) |-> RefFused(its, m[i])])

\* The second loop is under way, or has ended for the channel before ci.
Observing == pc = "items" \/ (pc \in {"channel", "done"} /\ ci > 1)

\* The items the second loop has taken so far.
SeenItems ==
    IF pc = "items" THEN SubSeq(channel.items, 1, ii - 1)
    ELSE Items(transcript_data)[ci - 1].items

OpenBuf == IF pc = "items" THEN buf ELSE <<>>

\* The texts and the starts of the runs built so far: the flushed utterances,
\* then the run still in buf.
GroupTexts ==
    [g \in 1..Len(utterances) |-> utterances[g].text]
    \o (IF OpenBuf = <<>> THEN <<>>
        ELSE <<Join(" ", [k \in 1..Len(OpenBuf) |-> OpenBuf[k].word])>>)

GroupStarts ==
    [g \in 1..Len(utterances) |-> utterances[g].start]
    \o (IF OpenBuf = <<>> THEN <<>> ELSE <<OpenBuf[1].start>>)

-----------------------------------------------------------------------------
(* The claims. *)

\* C1: an utterance boundary lies between two consecutive words exactly when
\* the second starts more than 1.5 s after the first ends; a gap of exactly
\* 1.5 s does not split and the first word of a channel never splits.  After
\* every item: the runs built so far are as many as the boundaries so far say,
\* and buf holds exactly the words since the last boundary.
C1_SplitIffGapOverThreshold ==
    Observing =>
        LET n == RefNumGroups(SeenItems)
        IN /\ Len(GroupStarts) = n
           /\ pc = "items" =>
                Len(buf) = IF n = 0 THEN 0 ELSE Len(RefGroup(SeenItems, n))
           /\ pc # "items" => Len(utterances) = n

C1_Witness ==
    /\ pc = "items"
    /\ ii = 4
    /\ Len(RefWords(SeenItems)) = 3
    /\ RefWords(SeenItems)[1].start_time > 3
    /\ Len(utterances) = 1
    /\ Len(buf) = 1

\* C2: punctuation is put, with no separator, onto the text of the last word
\* buffered, and an utterance's text is its words, each with its punctuation,
\* joined by one space; punctuation starts no word and reaches no flushed
\* utterance.
C2_PunctuationFused ==
    Observing =>
        /\ \A g \in 1..Len(GroupTexts) : GroupTexts[g] = RefGroupText(SeenItems, g)
        /\ pc = "items" =>
             \A k \in 1..Len(buf) :
                buf[k].word =
                    RefFused(SeenItems, Len(RefWords(SeenItems)) - Len(buf) + k)

C2_Witness ==
    /\ pc = "channel"
    /\ ci = 2
    /\ Items(transcript_data)[1].items =
          <<WordItem("hi", 0, 1), PunctItem("."), WordItem("yo", 1, 1)>>
    /\ utterances = <<[start |-> 0, text |-> "hi. yo", label |-> "AI Agent"]>>

\* C3: punctuation that comes while buf is empty is dropped: no error, no
\* utterance; a channel with no word gives no utterance, and no utterance is
\* without a word.
C3_LeadingPunctuationDropped ==
    /\ Observing =>
        /\ RefWords(SeenItems) = <<>> => utterances = <<>> /\ OpenBuf = <<>>
        /\ Len(GroupTexts) <= Len(RefWords(SeenItems))
        /\ \A g \in 1..Len(GroupTexts) : GroupTexts[g] # ""
    /\ pc = "done" /\ (\A c \in 1..Len(Items(transcript_data)) :
                          RefWords(Items(transcript_data)[c].items) = <<>>)
         => segments = <<>>

C3_Witness ==
    /\ pc = "channel"
    /\ ci = 2
    /\ Items(transcript_data)[1].items = <<PunctItem("."), PunctItem(".")>>
    /\ utterances = <<>>

\* C4: with no channel data (the list absent or empty) the plain transcript
\* is returned as it is, with the flag false, and nothing is segmented or
\* labelled.
C4_FallbackPlainTranscript ==
    pc = "done" /\ Items(transcript_data) = <<>> =>
        /\ result = <<transcript_data.transcript, FALSE>>
        /\ segments = <<>>
        /\ utterances = <<>>
        /\ label = ""

C4_Witness ==
    /\ pc = "done"
    /\ "channels" \notin DOMAIN transcript_data
    /\ result = <<"hola que tal", FALSE>>

\* The place of in[i] in a stable sort of in by start.
StablePlace(in, i) ==
    Cardinality({j \in 1..Len(in) : in[j].start < in[i].start})
    + Cardinality({j \in 1..i : in[j].start = in[i].start})

\* C5: the rendered lines are the utterances of all channels in ascending
\* order of start_time, and utterances with equal start_time keep the order
\* they were collected in.
C5_StableSortByStart ==
    [][pc = "channel" /\ pc' = "done" =>
        /\ Len(segments') = Len(segments)
        /\ \A i \in 1..Len(segments) : segments'[StablePlace(segments, i)] = segments[i]
        /\ \A i, j \in 1..Len(segments') :
              i <= j => segments'[i].start <= segments'[j].start
        /\ result'[1] =
              Join("\n", [k \in 1..Len(segments') |->
                            segments'[k].label \o ": " \o segments'[k].text])
      ]_vars

C5_Witness ==
    /\ pc = "done"
    /\ Len(Items(transcript_data)) = 2
    /\ Items(transcript_data)[1].channel_label = "ch_1"
    /\ Len(segments) = 3
    /\ segments[1].start = 0
    /\ segments[2].start = 0
    /\ segments[1].label = "Customer"
    /\ segments[2].label = "AI Agent"
    /\ segments[3].label = "Customer"

\* The label the claim gives to channel index k.
ClaimedLabel(k) ==
    IF k = 0 THEN "AI Agent"
    ELSE IF k = 1 THEN "Customer"
    ELSE "Channel " \o IntToStr(k)

\* The index written in a channel_label string of the inputs.
RefIndex(channel_label) ==
    CHOOSE k \in ChannelIndices : ChannelLabelString(k) = channel_label

\* C6, as claimed: index 0 gives "AI Agent", 1 gives "Customer", any other
\* index k gives "Channel k".
C6_AsClaimed ==
    pc = "items" => label = ClaimedLabel(RefIndex(channel.channel_label))

\* C6, amended: index 0 gives "AI Agent", 1 gives "Customer", any other index
\* k gives "Ch" followed by k, which is neither role; every utterance of the
\* channel carries the channel's label.
C6_LabelFromTable ==
    pc = "items" =>
        LET k == RefIndex(channel.channel_label)
        IN /\ k = 0 => label = "AI Agent"
           /\ k = 1 => label = "Customer"
           /\ k \notin {0, 1} =>
                /\ label = "Ch" \o IntToStr(k)
                /\ label \notin {"AI Agent", "Customer"}
           /\ \A g \in 1..Len(utterances) : utterances[g].label = label

C6_Witness ==
    /\ pc = "items"
    /\ channel.channel_label = "ch_2"
    /\ Len(utterances) = 1
    /\ utterances[1].label = "Ch2"

\* C7: the flag is true exactly when the channel list is not empty; then the
\* text is the rendered lines and the plain transcript is not used, also when
\* no channel has a word: the text is then empty and the flag true.
C7_FlagIffChannels ==
    pc = "done" =>
        /\ result[2] = (Items(transcript_data) # <<>>)
        /\ Items(transcript_data) # <<>> =>
             /\ result[1] =
                  Join("\n", [k \in 1..Len(segments) |->
                                segments[k].label \o ": " \o segments[k].text])
             /\ result[1] # transcript_data.transcript
             /\ (\A c \in 1..Len(Items(transcript_data)) :
                    RefWords(Items(transcript_data)[c].items) = <<>>)
                  => result = <<"", TRUE>>

C7_Witness ==
    /\ pc = "done"
    /\ Len(Items(transcript_data)) = 2
    /\ \A c \in 1..2 : Items(transcript_data)[c].items = <<>>
    /\ result = <<"", TRUE>>

ParseAgrees == pc = "done" => result = parse_channel_transcript(transcript_data)

====
